---------------------------- MODULE Spec2Model ----------------------------
(***************************************************************************)
(* State-machine model of the AI Derma backend (Express + Sequelize):      *)
(* accounts, analyses and consent records in the relational store, the     *)
(* Stripe and Cloudinary collaborators, the JWT credentials, the           *)
(* express-rate-limit store of the analysis limiter and the route          *)
(* handlers of routes/auth.js, routes/analysis.js, routes/subscription.js  *)
(* and routes/gdpr.js.  Handlers that await several datastore or external  *)
(* calls are split at the awaits the properties depend on; time is in      *)
(* seconds.                                                                *)
(***************************************************************************)
EXTENDS Integers, Sequences, FiniteSets, TLC

VARIABLES
    users,        \* table Users: id -> row
    analyses,     \* table Analyses: set of rows
    consents,     \* table Consents: set of rows
    blobs,        \* Cloudinary: stored images, by account folder
    customers,    \* Stripe: customer records created through the API
    canceled,     \* Stripe: subscription ids canceled through the API
    hits,         \* express-rate-limit MemoryStore of analysisLimiter
    admitted,     \* observer: requests the analysis limiter let through
    issued,       \* JWTs signed so far by generateTokens
    now,          \* wall clock, seconds
    nextId,       \* primary keys / external ids handed out so far
    regInFlight,  \* POST /register requests between findOne and create
    coInFlight,   \* POST /create-checkout requests holding a new customer
    delInFlight,  \* POST /delete-account requests between their awaits
    anInFlight,   \* POST /analysis requests between their awaits
    conInFlight,  \* POST /consent requests between logConsent and update
    rmInFlight,   \* DELETE /analysis/:id requests between their awaits
    resp,         \* the response most recently sent
    calls         \* external calls made by the most recent step

vars == <<users, analyses, consents, blobs, customers, canceled, hits,
          admitted, issued,
          now, nextId, regInFlight, coInFlight, delInFlight, anInFlight,
          conInFlight, rmInFlight, resp, calls>>

---------------------------------------------------------------------------
(* Bounds of the model *)

MaxUsers == 2
MaxAnalyses == 2
MaxConsents == 3
MaxCustomers == 1
MaxBlobs == 2
MaxUploads == 1
MaxInFlight == 1
MaxOverlap == 2
MaxRegInFlight == 2
MaxTicks == 2

(* Program constants *)

MinPasswordLength == 8
AccessTtl == 900
RefreshTtl == 604800
WindowSec == 3600
FreeMax == 5
PremiumMax == 50
GraceDays == 30
DaySec == 86400
RetentionDays == 365
MaxFileSize == 10485760

NoDate == 0 - 1
NoRef == 0

UserIds == 1..MaxUsers

ConfirmPhrase == "DELETE"
Phrases == {"DELETE", "delete", ""}

SubscriptionStatusEnum == {"active", "canceled", "past_due", "inactive"}
StripeStatuses == {"active", "past_due", "canceled", "incomplete"}

RawEmails == {"test@example.com", "Test@Example.com", "b@example.com", "nope"}
Passwords == {"123", "SecurePass123!"}
ConsentInputs == {"true", "false"}

---------------------------------------------------------------------------
(* express-validator and bcrypt *)

IsEmail(raw) == raw # "nope"

NormalizeEmail(raw) ==
    IF raw = "Test@Example.com" THEN "test@example.com" ELSE raw

Hash(pw) == <<"bcrypt", 12, pw>>

comparePassword(row, candidate) == row.password = Hash(candidate)

---------------------------------------------------------------------------
(* Datastore helpers *)

Present == DOMAIN users

NewUser(email, pw, consentDate) ==
    [ email |-> email,
      password |-> Hash(pw),
      isPremium |-> FALSE,
      stripeCustomerId |-> NoRef,
      stripeSubscriptionId |-> NoRef,
      subscriptionStatus |-> "inactive",
      gdprConsentDate |-> consentDate,
      marketingConsent |-> FALSE,
      dataRetentionConsent |-> TRUE,
      lastLogin |-> NoDate,
      accountDeletionScheduled |-> NoDate ]

EmailTaken(email) == \E u \in Present : users[u].email = email

(* Model.findAll({ where: { userId } }) *)
RowsOf(table, u) == {r \in table : r.userId = u}

AddRow(table, id, row) == [x \in DOMAIN table \cup {id} |->
                              IF x = id THEN row ELSE table[x]]

(* A destroy that leaves the row in the table *)
KeepRow(table, id) == table

DropRow(table, id) == [x \in DOMAIN table \ {id} |-> table[x]]

UpdateUser(u, fields) ==
    IF u \in Present
    THEN [users EXCEPT ![u] = [f \in DOMAIN users[u] |->
              IF f \in DOMAIN fields THEN fields[f] ELSE users[u][f]]]
    ELSE users

Response(op, u, status, err) ==
    [op |-> op, user |-> u, status |-> status, error |-> err, data |-> 0]

---------------------------------------------------------------------------
(* middleware/auth.js *)

Token(u, key, ttl) == [userId |-> u, key |-> key, exp |-> now + ttl]

generateTokens(u) ==
    { Token(u, "JWT_SECRET", AccessTtl),
      Token(u, "JWT_REFRESH_SECRET", RefreshTtl) }

JwtVerify(t, key) ==
    IF t.key # key THEN "invalid"
    ELSE IF t.exp <= now THEN "expired"
    ELSE "ok"

authenticate(t) ==
    IF JwtVerify(t, "JWT_SECRET") = "expired" THEN "Token expired"
    ELSE IF JwtVerify(t, "JWT_SECRET") = "invalid" THEN "Invalid token"
    ELSE IF t.userId \notin Present THEN "User not found"
    ELSE "ok"

Forged == { [userId |-> u, key |-> "forged", exp |-> AccessTtl] : u \in UserIds }

Presentable == issued \cup Forged


---------------------------------------------------------------------------
(* Initial state: empty tables, empty limiter store, nothing in flight *)

NoResponse == Response("none", 0, 0, "")

Init ==
    /\ users = << >>
    /\ analyses = {}
    /\ consents = {}
    /\ blobs = {}
    /\ customers = {}
    /\ canceled = {}
    /\ hits = << >>
    /\ admitted = << >>
    /\ issued = {}
    /\ now = 0
    /\ nextId = [user |-> 1, analysis |-> 1, consent |-> 1, customer |-> 1,
                 blob |-> 1]
    /\ regInFlight = {}
    /\ coInFlight = {}
    /\ delInFlight = {}
    /\ anInFlight = {}
    /\ conInFlight = {}
    /\ rmInFlight = {}
    /\ resp = NoResponse
    /\ calls = {}

Tables == <<users, analyses, consents>>
External == <<blobs, customers, canceled>>
InFlight ==
    <<regInFlight, coInFlight, delInFlight, anInFlight, conInFlight, rmInFlight>>

(* A handler step that only answers: nothing else changes. *)
Reply(op, u, status, err) ==
    /\ resp' = Response(op, u, status, err)
    /\ calls' = {}
    /\ UNCHANGED <<Tables, External, InFlight, hits, admitted, issued, now, nextId>>

FreeSlot(S) == CHOOSE n \in 1..(Cardinality(S) + 1) :
                   \A r \in S : r.slot # n

---------------------------------------------------------------------------
(* middleware/gdpr.js: logConsent *)

ConsentRow(u, type, given) ==
    [ id |-> nextId.consent, userId |-> u, consentType |-> type,
      consentGiven |-> given, createdAt |-> now ]

(* A value of the request body: a JSON boolean, or absent *)
JsonTrue == [defined |-> TRUE, value |-> TRUE]
JsonFalse == [defined |-> TRUE, value |-> FALSE]
Undefined == [defined |-> FALSE, value |-> FALSE]
BodyValues == {JsonTrue, JsonFalse, Undefined}

(* Consent.create fails on the foreign key when the account row is gone    *)
(* and on consentGiven (allowNull: false) when the value is absent;        *)
(* logConsent swallows the error.                                          *)
logConsent(table, u, type, given, owners) ==
    IF u \in owners /\ given.defined
    THEN table \cup {ConsentRow(u, type, given.value)}
    ELSE table

---------------------------------------------------------------------------
(* routes/auth.js *)

(* A validation chain that checks the email only *)
RegisterValidEmailOnly(raw, pw, consent) == IsEmail(raw)

RegisterValid(raw, pw, consent) ==
    /\ IsEmail(raw)
    /\ Len(pw) >= MinPasswordLength
    /\ consent = "true"

(* errors.array(): the body fields whose validator failed *)
ValidationErrors(raw, pw, consent) ==
    {f \in {"email", "password", "gdprConsent"} :
        \/ f = "email" /\ ~IsEmail(raw)
        \/ f = "password" /\ Len(pw) < MinPasswordLength
        \/ f = "gdprConsent" /\ consent # "true"}

(* POST /register up to the await of User.findOne *)
Register(raw, pw, consent) ==
    IF ~RegisterValid(raw, pw, consent)
    THEN /\ resp' = [Response("register", 0, 400, "validation")
                       EXCEPT !.data = ValidationErrors(raw, pw, consent)]
         /\ calls' = {}
         /\ UNCHANGED <<Tables, External, InFlight, hits, admitted, issued, now,
                        nextId>>
    ELSE IF EmailTaken(NormalizeEmail(raw))
    THEN Reply("register", 0, 400, "Email already registered")
    ELSE /\ Cardinality(regInFlight) < MaxRegInFlight
         /\ regInFlight' = regInFlight \cup
                {[slot |-> FreeSlot(regInFlight),
                  email |-> NormalizeEmail(raw), password |-> pw]}
         /\ resp' = Response("register", 0, 0, "")
         /\ calls' = {}
         /\ UNCHANGED <<Tables, External, coInFlight, delInFlight,
                        anInFlight, conInFlight, hits, admitted, issued, now, nextId,
                        rmInFlight>>

(* A table without the unique index *)
UniqueEmailUnchecked(email) == TRUE

(* The unique index on Users.email (models/User.js) *)
UniqueEmail(email) == ~EmailTaken(email)

(* POST /register from User.create to the response *)
RegisterCreate(r) ==
    /\ r \in regInFlight
    /\ regInFlight' = regInFlight \ {r}
    /\ calls' = {}
    /\ IF ~UniqueEmail(r.email)
       THEN /\ resp' = Response("register", 0, 500, "Registration failed")
            /\ UNCHANGED <<Tables, issued, nextId>>
       ELSE /\ nextId.user <= MaxUsers
            /\ nextId.consent <= MaxConsents
            /\ users' = AddRow(users, nextId.user,
                               NewUser(r.email, r.password, now))
            /\ consents' = logConsent(consents, nextId.user, "gdpr", JsonTrue,
                                      DOMAIN users')
            /\ issued' = issued \cup generateTokens(nextId.user)
            /\ nextId' = [nextId EXCEPT !.user = @ + 1, !.consent = @ + 1]
            /\ resp' = Response("register", nextId.user, 201, "")
            /\ UNCHANGED analyses
    /\ UNCHANGED <<External, coInFlight, delInFlight, anInFlight, conInFlight,
                   hits, admitted, now,
                   rmInFlight>>

UserByEmail(email) == CHOOSE u \in Present : users[u].email = email

(* POST /login *)
Login(raw, pw) ==
    IF ~IsEmail(raw) \/ pw = ""
    THEN Reply("login", 0, 400, "validation")
    ELSE IF \/ ~EmailTaken(NormalizeEmail(raw))
            \/ ~comparePassword(users[UserByEmail(NormalizeEmail(raw))], pw)
    THEN Reply("login", 0, 401, "Invalid credentials")
    ELSE LET u == UserByEmail(NormalizeEmail(raw)) IN
         /\ users' = UpdateUser(u, [lastLogin |-> now])
         /\ issued' = issued \cup generateTokens(u)
         /\ resp' = Response("login", u, 200, "")
         /\ calls' = {}
         /\ UNCHANGED <<analyses, consents, External, InFlight, hits, admitted, now,
                        nextId>>

(* Names bound by the import statements of routes/auth.js *)
AuthRouteImports ==
    {"express", "body", "validationResult", "User", "generateTokens",
     "authenticate", "authLimiter", "logConsent"}

NoToken == [userId |-> 0, key |-> "none", exp |-> 0]

(* POST /refresh: evaluating the unbound identifier jwt throws a           *)
(* ReferenceError inside the try block.                                    *)
Refresh(t) ==
    IF t = NoToken
    THEN Reply("refresh", 0, 401, "Refresh token required")
    ELSE IF "jwt" \notin AuthRouteImports
    THEN Reply("refresh", 0, 401, "Invalid refresh token")
    ELSE IF JwtVerify(t, "JWT_REFRESH_SECRET") # "ok"
    THEN Reply("refresh", 0, 401, "Invalid refresh token")
    ELSE /\ issued' = issued \cup generateTokens(t.userId)
         /\ resp' = Response("refresh", t.userId, 200, "")
         /\ calls' = {}
         /\ UNCHANGED <<Tables, External, InFlight, hits, admitted, now, nextId>>

(* POST /logout *)
Logout(t) ==
    IF authenticate(t) # "ok"
    THEN Reply("logout", 0, 401, authenticate(t))
    ELSE Reply("logout", t.userId, 200, "")

(* GET /me *)
Me(t) ==
    IF authenticate(t) # "ok"
    THEN Reply("me", 0, 401, authenticate(t))
    ELSE /\ resp' = [Response("me", t.userId, 200, "") EXCEPT !.data =
                  [ id |-> t.userId, email |-> users[t.userId].email,
                    isPremium |-> users[t.userId].isPremium ]]
         /\ calls' = {}
         /\ UNCHANGED <<Tables, External, InFlight, hits, admitted, issued, now,
                        nextId>>

---------------------------------------------------------------------------
(* services/stripeService.js *)

MaxSubs == 1

SubscriptionIds == 1..MaxSubs

(* Stripe side: the customer a subscription id belongs to *)
SubCustomer(s) == ((s - 1) % MaxCustomers) + 1

EventTypes == {"customer.subscription.created", "customer.subscription.updated",
               "customer.subscription.deleted", "invoice.payment_failed",
               "charge.succeeded"}

(* Events Stripe can deliver: about customers it holds *)
Events ==
    { [type |-> ty, id |-> s, customer |-> SubCustomer(s), status |-> st] :
        ty \in EventTypes, s \in SubscriptionIds, st \in StripeStatuses }

(* User.findOne: the first matching row *)
FindUser(matching) ==
    IF matching # {}
    THEN CHOOSE u \in matching : \A v \in matching : u <= v
    ELSE 0

(* Each handler yields the Users table after it and whether it threw. *)
(* handleWebhook adds the name of the handler it dispatched to.        *)
updateSubscriptionStatus(subscription) ==
    LET u == FindUser({x \in Present :
                         users[x].stripeCustomerId = subscription.customer})
    IN  IF u = 0 THEN [table |-> users, threw |-> FALSE]
        ELSE IF subscription.status \notin SubscriptionStatusEnum
        THEN [table |-> users, threw |-> TRUE]
        ELSE [table |-> UpdateUser(u,
                 [stripeSubscriptionId |-> subscription.id,
                  subscriptionStatus |-> subscription.status,
                  isPremium |-> (subscription.status = "active")]),
              threw |-> FALSE]

handleSubscriptionDeleted(subscription) ==
    LET u == FindUser({x \in Present :
                         users[x].stripeSubscriptionId = subscription.id})
    IN  IF u = 0 THEN [table |-> users, threw |-> FALSE]
        ELSE [table |-> UpdateUser(u,
                 [subscriptionStatus |-> "inactive", isPremium |-> FALSE]),
              threw |-> FALSE]

(* A handler that downgrades further on every failed payment *)
handlePaymentFailedEscalating(invoice) ==
    LET u == FindUser({x \in Present :
                         users[x].stripeCustomerId = invoice.customer})
    IN  IF u = 0 THEN [table |-> users, threw |-> FALSE]
        ELSE IF users[u].subscriptionStatus = "past_due"
        THEN [table |-> UpdateUser(u, [subscriptionStatus |-> "inactive"]),
              threw |-> FALSE]
        ELSE [table |-> UpdateUser(u, [subscriptionStatus |-> "past_due"]),
              threw |-> FALSE]

(* A handler that also withdraws the premium flag *)
handlePaymentFailedDowngrading(invoice) ==
    LET u == FindUser({x \in Present :
                         users[x].stripeCustomerId = invoice.customer})
    IN  IF u = 0 THEN [table |-> users, threw |-> FALSE]
        ELSE [table |-> UpdateUser(u, [subscriptionStatus |-> "past_due",
                                       isPremium |-> FALSE]),
              threw |-> FALSE]

handlePaymentFailed(invoice) ==
    LET u == FindUser({x \in Present :
                         users[x].stripeCustomerId = invoice.customer})
    IN  IF u = 0 THEN [table |-> users, threw |-> FALSE]
        ELSE [table |-> UpdateUser(u, [subscriptionStatus |-> "past_due"]),
              threw |-> FALSE]

(* A constructEvent that accepts any signature *)
constructEventUnverified(event, signatureOk) == TRUE

(* stripe.webhooks.constructEvent: throws unless the signature verifies *)
constructEvent(event, signatureOk) == signatureOk

Dispatched(r, handler) ==
    [table |-> r.table, threw |-> r.threw, handler |-> handler]

handleWebhook(event, signatureOk) ==
    IF ~constructEvent(event, signatureOk)
    THEN Dispatched([table |-> users, threw |-> TRUE], "none")
    ELSE IF event.type \in {"customer.subscription.created",
                            "customer.subscription.updated"}
    THEN Dispatched(updateSubscriptionStatus(event), "updateSubscriptionStatus")
    ELSE IF event.type = "customer.subscription.deleted"
    THEN Dispatched(handleSubscriptionDeleted(event), "handleSubscriptionDeleted")
    ELSE IF event.type = "invoice.payment_failed"
    THEN Dispatched(handlePaymentFailed(event), "handlePaymentFailed")
    ELSE Dispatched([table |-> users, threw |-> FALSE], "none")

---------------------------------------------------------------------------
(* routes/subscription.js *)

(* POST /webhook *)
Webhook(event, signatureOk) ==
    /\ event.customer \in {c.id : c \in customers}
    /\ LET r == handleWebhook(event, signatureOk) IN
       /\ users' = r.table
       /\ resp' = [ (IF r.threw
                      THEN Response("webhook", 0, 400, "Webhook processing failed")
                      ELSE Response("webhook", 0, 200, ""))
                    EXCEPT !.data = r.handler ]
    /\ calls' = {}
    /\ UNCHANGED <<analyses, consents, External, InFlight, hits, admitted, issued, now,
                   nextId>>

(* POST /create-checkout up to the await of req.user.update, or to the     *)
(* response when the account already has a customer                        *)
CreateCheckout(t, customerOk, sessionOk) ==
    IF authenticate(t) # "ok"
    THEN Reply("create-checkout", 0, 401, authenticate(t))
    ELSE LET u == t.userId IN
      IF users[u].stripeCustomerId # NoRef
      THEN /\ resp' = IF sessionOk
                      THEN Response("create-checkout", u, 200, "")
                      ELSE Response("create-checkout", u, 500,
                                    "Failed to create checkout session")
           /\ calls' = {"stripe.checkout.sessions.create"}
           /\ UNCHANGED <<Tables, External, InFlight, hits, admitted, issued, now, nextId>>
      ELSE IF ~customerOk
      THEN /\ resp' = Response("create-checkout", u, 500,
                               "Failed to create checkout session")
           /\ calls' = {"stripe.customers.create"}
           /\ UNCHANGED <<Tables, External, InFlight, hits, admitted, issued, now, nextId>>
      ELSE /\ nextId.customer <= MaxOverlap
           /\ Cardinality(coInFlight) < MaxOverlap
           /\ customers' = customers \cup
                  {[id |-> nextId.customer, userId |-> u]}
           /\ coInFlight' = coInFlight \cup
                  {[user |-> u, customer |-> nextId.customer]}
           /\ nextId' = [nextId EXCEPT !.customer = @ + 1]
           /\ resp' = Response("create-checkout", u, 0, "")
           /\ calls' = {"stripe.customers.create"}
           /\ UNCHANGED <<Tables, blobs, canceled, regInFlight, delInFlight,
                          anInFlight, conInFlight, hits, admitted, issued, now,
                          rmInFlight>>

(* POST /create-checkout from req.user.update to the response *)
CheckoutUpdate(c, sessionOk) ==
    /\ c \in coInFlight
    /\ coInFlight' = coInFlight \ {c}
    /\ users' = UpdateUser(c.user, [stripeCustomerId |-> c.customer])
    /\ resp' = IF sessionOk
               THEN Response("create-checkout", c.user, 200, "")
               ELSE Response("create-checkout", c.user, 500,
                             "Failed to create checkout session")
    /\ calls' = {"stripe.checkout.sessions.create"}
    /\ UNCHANGED <<analyses, consents, External, regInFlight, delInFlight,
                   anInFlight, conInFlight, hits, admitted, issued, now, nextId,
                   rmInFlight>>

(* GET /status *)
Status(t) ==
    IF authenticate(t) # "ok"
    THEN Reply("status", 0, 401, authenticate(t))
    ELSE /\ resp' = [Response("status", t.userId, 200, "") EXCEPT !.data =
                  [ isPremium |-> users[t.userId].isPremium,
                    status |-> users[t.userId].subscriptionStatus,
                    stripeCustomerId |-> users[t.userId].stripeCustomerId ]]
         /\ calls' = {}
         /\ UNCHANGED <<Tables, External, InFlight, hits, admitted, issued, now,
                        nextId>>

(* POST /cancel *)
Cancel(t, cancelOk) ==
    IF authenticate(t) # "ok"
    THEN Reply("cancel", 0, 401, authenticate(t))
    ELSE LET u == t.userId IN
      IF users[u].stripeSubscriptionId = NoRef
      THEN Reply("cancel", u, 400, "No active subscription")
      ELSE /\ canceled' = IF cancelOk
                          THEN canceled \cup {users[u].stripeSubscriptionId}
                          ELSE canceled
           /\ resp' = IF cancelOk
                      THEN Response("cancel", u, 200, "")
                      ELSE Response("cancel", u, 500,
                                    "Failed to cancel subscription")
           /\ calls' = {"stripe.subscriptions.cancel"}
           /\ UNCHANGED <<Tables, blobs, customers, InFlight, hits, admitted, issued,
                          now, nextId>>

---------------------------------------------------------------------------
(* middleware/rateLimit.js: analysisLimiter on the express-rate-limit      *)
(* MemoryStore (a fixed window per key, opened by the key's first hit)     *)

keyGenerator(u) == u

(* A limit that ignores the tier *)
maxAnyTier(u) == PremiumMax

max(u) == IF users[u].isPremium THEN PremiumMax ELSE FreeMax

Client(store, key) ==
    IF key \in DOMAIN store /\ store[key].resetTime > now
    THEN store[key]
    ELSE [totalHits |-> 0, resetTime |-> now + WindowSec]

Increment(store, key) ==
    AddRow(store, key, [Client(store, key) EXCEPT !.totalHits = @ + 1])

TotalHits(key) == Client(hits, key).totalHits

(* A comparison that lets one more request through *)
OverLimitByTwo(totalHits, limit) == totalHits > limit + 1

(* express-rate-limit: totalHits > limit answers 429 *)
OverLimit(totalHits, limit) == totalHits > limit

---------------------------------------------------------------------------
(* services/imageService.js and the multer configuration *)

NoFile == [type |-> "", subtype |-> "", size |-> 0]

Files ==
    {NoFile} \cup
    { [type |-> ty, subtype |-> st, size |-> sz] :
        ty \in {"image", "application"},
        st \in {"jpeg", "png", "gif"},
        sz \in {1024, MaxFileSize + 1} }

(* multer: fileFilter (mimetype.startsWith('image/')) and limits.fileSize *)
MulterAccepts(file) == file.type = "image" /\ file.size <= MaxFileSize

validateImage(file) ==
    /\ file.type = "image" /\ file.subtype \in {"jpeg", "png", "jpg"}
    /\ file.size <= MaxFileSize

---------------------------------------------------------------------------
(* routes/analysis.js *)

(* The checks of POST / between the limiter and the upload: the status     *)
(* answered, 0 when the request goes on.                                   *)
AnalysisChecks(file, questionnaireOk) ==
    IF file # NoFile /\ ~MulterAccepts(file) THEN 500
    ELSE IF ~questionnaireOk THEN 400
    ELSE IF file = NoFile THEN 400
    ELSE IF ~validateImage(file) THEN 500
    ELSE 0

(* A gate that lets every account through *)
requireGDPRConsentAlways(user) == TRUE

(* middleware/gdpr.js requireGDPRConsent: next() unless                    *)
(* !user.gdprConsentDate; a stored DATE is a Date object, never falsy      *)
requireGDPRConsent(user) == user.gdprConsentDate # NoDate

(* Observer: one more request of account u got past the limiter, now, at  *)
(* the tier the account has now.                                           *)
Admit(u) ==
    LET k == <<u, now, users[u].isPremium>> IN
    IF k \in DOMAIN admitted
    THEN [admitted EXCEPT ![k] = @ + 1]
    ELSE AddRow(admitted, k, 1)

(* POST / up to the await of imageService.uploadImage *)
CreateAnalysis(t, file, questionnaireOk, uploadOk) ==
    IF authenticate(t) # "ok"
    THEN Reply("analysis", 0, 401, authenticate(t))
    ELSE LET u == t.userId
             store == Increment(hits, keyGenerator(u))
             failed == AnalysisChecks(file, questionnaireOk)
         IN
      IF ~requireGDPRConsent(users[u])
      THEN Reply("analysis", u, 403, "GDPR consent required")
      ELSE IF OverLimit(store[keyGenerator(u)].totalHits, max(u))
      THEN /\ hits' = store
           /\ resp' = Response("analysis", u, 429, "Analysis limit reached")
           /\ calls' = {}
           /\ UNCHANGED <<Tables, External, InFlight, admitted, issued, now,
                          nextId>>
      ELSE IF failed # 0
      THEN /\ hits' = store
           /\ admitted' = Admit(u)
           /\ resp' = Response("analysis", u, failed, "rejected")
           /\ calls' = {}
           /\ UNCHANGED <<Tables, External, InFlight, issued, now, nextId>>
      ELSE IF ~uploadOk
      THEN /\ hits' = store
           /\ admitted' = Admit(u)
           /\ resp' = Response("analysis", u, 500, "Failed to upload image")
           /\ calls' = {"cloudinary.upload_stream"}
           /\ UNCHANGED <<Tables, External, InFlight, issued, now, nextId>>
      ELSE /\ nextId.blob <= MaxBlobs
           /\ Cardinality(anInFlight) < MaxInFlight
           /\ hits' = store
           /\ admitted' = Admit(u)
           /\ blobs' = blobs \cup {[folder |-> u, publicId |-> nextId.blob]}
           /\ anInFlight' = anInFlight \cup
                  {[user |-> u, publicId |-> nextId.blob,
                    isPremium |-> users[u].isPremium]}
           /\ nextId' = [nextId EXCEPT !.blob = @ + 1]
           /\ resp' = Response("analysis", u, 0, "")
           /\ calls' = {"cloudinary.upload_stream"}
           /\ UNCHANGED <<Tables, customers, canceled, regInFlight, coInFlight,
                          delInFlight, conInFlight, issued, now,
                          rmInFlight>>

(* A row whose scheduledDeletion is taken from the grace period *)
AnalysisRowGrace(a) ==
    [ id |-> nextId.analysis, userId |-> a.user,
      imagePublicId |-> a.publicId, isPremiumAnalysis |-> a.isPremium,
      createdAt |-> now,
      scheduledDeletion |-> now + GraceDays * DaySec ]

AnalysisRow(a) ==
    [ id |-> nextId.analysis, userId |-> a.user,
      imagePublicId |-> a.publicId, isPremiumAnalysis |-> a.isPremium,
      createdAt |-> now,
      scheduledDeletion |-> now + RetentionDays * DaySec ]

(* A handler that removes the uploaded image when the analysis fails *)
AnalyzeAndSaveCompensating(a, aiOk) ==
    /\ a \in anInFlight
    /\ anInFlight' = anInFlight \ {a}
    /\ IF ~aiOk
       THEN /\ resp' = Response("analysis", a.user, 500,
                                "Failed to analyze image. Please try again.")
            /\ blobs' = {b \in blobs : b.publicId # a.publicId}
            /\ calls' = {"openai.chat.completions.create",
                         "cloudinary.uploader.destroy"}
            /\ UNCHANGED <<analyses, nextId>>
       ELSE /\ a.user \in Present
            /\ nextId.analysis <= MaxAnalyses
            /\ analyses' = analyses \cup {AnalysisRow(a)}
            /\ nextId' = [nextId EXCEPT !.analysis = @ + 1]
            /\ resp' = Response("analysis", a.user, 201, "")
            /\ calls' = {"openai.chat.completions.create"}
            /\ UNCHANGED blobs
    /\ UNCHANGED <<users, consents, customers, canceled, regInFlight,
                   coInFlight, delInFlight, conInFlight, hits, admitted, issued,
                   now, rmInFlight>>

(* POST / from aiService.analyzeImage to the response; Analysis.create     *)
(* fails on the foreign key when the account row is gone.                  *)
AnalyzeAndSave(a, aiOk) ==
    /\ a \in anInFlight
    /\ anInFlight' = anInFlight \ {a}
    /\ calls' = {"openai.chat.completions.create"}
    /\ IF ~aiOk
       THEN /\ resp' = Response("analysis", a.user, 500,
                                "Failed to analyze image. Please try again.")
            /\ UNCHANGED <<analyses, nextId>>
       ELSE IF a.user \notin Present
       THEN /\ resp' = Response("analysis", a.user, 500, "foreign key")
            /\ UNCHANGED <<analyses, nextId>>
       ELSE /\ nextId.analysis <= MaxAnalyses
            /\ analyses' = analyses \cup {AnalysisRow(a)}
            /\ nextId' = [nextId EXCEPT !.analysis = @ + 1]
            /\ resp' = Response("analysis", a.user, 201, "")
    /\ UNCHANGED <<users, consents, External, regInFlight, coInFlight,
                   delInFlight, conInFlight, hits, admitted, issued, now,
                   rmInFlight>>

(* An ascending order *)
ByCreatedAtAsc(a, b) == a.createdAt <= b.createdAt

(* order: [['createdAt', 'DESC']]; rows of equal createdAt in any order *)
ByCreatedAtDesc(a, b) == a.createdAt >= b.createdAt

(* The result lists a query ordered by createdAt DESC can return *)
Ordered(rows) ==
    { list \in [1..Cardinality(rows) -> rows] :
        /\ \A i, j \in DOMAIN list : i < j => list[i] # list[j]
        /\ \A i, j \in DOMAIN list : i < j => ByCreatedAtDesc(list[i], list[j]) }

(* What res.json sends of a row: the selected attributes *)
Project(row, attributes) == [f \in attributes |-> row[f]]

AnalysisAttributes ==
    {"id", "userId", "imagePublicId", "isPremiumAnalysis", "createdAt",
     "scheduledDeletion"}

(* Values of :id; an id names a row only while the row exists *)
AnalysisIds == 1..MaxAnalyses

Min(a, b) == IF a < b THEN a ELSE b

ListAttributes == {"id", "createdAt", "isPremiumAnalysis"}

(* Values of the page and limit query parameters *)
Pages == 0..(MaxAnalyses + 1)
Limits == 1..MaxAnalyses

(* An offset counted from page 0 *)
OffsetFromPage(page, limit) == page * limit

(* const offset = (page - 1) * limit *)
Offset(page, limit) == (page - 1) * limit

(* LIMIT limit OFFSET offset applied to a result list *)
Window(list, offset, limit) ==
    [i \in 1..Min(limit, IF Len(list) > offset THEN Len(list) - offset ELSE 0)
        |-> list[offset + i]]

(* GET /: the datastore rejects a negative OFFSET *)
ListAnalyses(t, page, limit) ==
    IF authenticate(t) # "ok"
    THEN Reply("list", 0, 401, authenticate(t))
    ELSE IF Offset(page, limit) < 0
    THEN Reply("list", t.userId, 500, "Failed to fetch analyses")
    ELSE /\ \E list \in Ordered(RowsOf(analyses, t.userId)) :
              resp' = [Response("list", t.userId, 200, "") EXCEPT !.data =
                  [ analyses |->
                        [i \in DOMAIN Window(list, Offset(page, limit), limit)
                            |-> Project(Window(list, Offset(page, limit),
                                               limit)[i], ListAttributes)],
                    total |-> Cardinality(RowsOf(analyses, t.userId)),
                    page |-> page,
                    pages |-> (Cardinality(RowsOf(analyses, t.userId))
                                   + limit - 1) \div limit ]]
         /\ calls' = {}
         /\ UNCHANGED <<Tables, External, InFlight, hits, admitted, issued, now,
                        nextId>>

(* A lookup that ignores the owner *)
FindAnalysisById(id, u) == {r \in analyses : r.id = id}

(* Analysis.findOne({ where: { id, userId } }): the matching rows *)
FindAnalysis(id, u) == {r \in analyses : r.id = id /\ r.userId = u}

(* GET /:id *)
GetAnalysis(t, id) ==
    IF authenticate(t) # "ok"
    THEN Reply("get-analysis", 0, 401, authenticate(t))
    ELSE /\ IF FindAnalysis(id, t.userId) = {}
            THEN resp' = Response("get-analysis", t.userId, 404,
                                  "Analysis not found")
            ELSE \E r \in FindAnalysis(id, t.userId) :
                    resp' = [Response("get-analysis", t.userId, 200, "")
                               EXCEPT !.data = Project(r, AnalysisAttributes)]
         /\ calls' = {}
         /\ UNCHANGED <<Tables, External, InFlight, hits, admitted, issued, now,
                        nextId>>

(* imageService.deleteImage: a failure is logged and swallowed *)
deleteImage(publicId, ok) ==
    IF ok THEN {b \in blobs : b.publicId # publicId} ELSE blobs

(* DELETE /:id up to the await of analysis.destroy *)
DeleteAnalysis(t, id, imageOk) ==
    IF authenticate(t) # "ok"
    THEN Reply("delete-analysis", 0, 401, authenticate(t))
    ELSE IF FindAnalysis(id, t.userId) = {}
    THEN Reply("delete-analysis", t.userId, 404, "Analysis not found")
    ELSE \E r \in FindAnalysis(id, t.userId) :
         /\ Cardinality(rmInFlight) < MaxInFlight
         /\ blobs' = deleteImage(r.imagePublicId, imageOk)
         /\ rmInFlight' = rmInFlight \cup {[user |-> t.userId, id |-> r.id]}
         /\ resp' = Response("delete-analysis", t.userId, 0, "")
         /\ calls' = {"cloudinary.uploader.destroy"}
         /\ UNCHANGED <<Tables, customers, canceled, regInFlight, coInFlight,
                        delInFlight, anInFlight, conInFlight, hits, admitted,
                        issued, now, nextId>>

(* DELETE /:id: await analysis.destroy(), then the response *)
DestroyAnalysis(x) ==
    /\ x \in rmInFlight
    /\ rmInFlight' = rmInFlight \ {x}
    /\ analyses' = {r \in analyses : r.id # x.id}
    /\ resp' = Response("delete-analysis", x.user, 200, "")
    /\ calls' = {}
    /\ UNCHANGED <<users, consents, External, regInFlight, coInFlight,
                   delInFlight, anInFlight, conInFlight, hits, admitted, issued,
                   now, nextId>>

---------------------------------------------------------------------------
(* routes/gdpr.js *)

ConsentTypes == {"gdpr", "marketing", "data_retention", "cookies"}

(* POST /consent up to the await of req.user.update, or to the response    *)
(* for a type that has no column on the account                            *)
Consent(t, consentType, consentGiven) ==
    IF authenticate(t) # "ok"
    THEN Reply("consent", 0, 401, authenticate(t))
    ELSE LET u == t.userId IN
      IF consentType \notin {"marketing", "data_retention", "cookies"}
      THEN Reply("consent", u, 400, "Invalid consent type")
      ELSE /\ nextId.consent <= MaxConsents
           /\ consents' = logConsent(consents, u, consentType, consentGiven,
                                     Present)
           /\ nextId' = IF consents' = consents THEN nextId
                        ELSE [nextId EXCEPT !.consent = @ + 1]
           /\ calls' = {}
           /\ IF consentType = "cookies"
              THEN /\ resp' = Response("consent", u, 200, "")
                   /\ UNCHANGED conInFlight
              ELSE /\ Cardinality(conInFlight) < MaxOverlap
                   /\ conInFlight' = conInFlight \cup
                          {[user |-> u, consentType |-> consentType,
                            consentGiven |-> consentGiven]}
                   /\ resp' = Response("consent", u, 0, "")
           /\ UNCHANGED <<users, analyses, External, regInFlight, coInFlight,
                          delInFlight, anInFlight, hits, admitted, issued, now,
                          rmInFlight>>

(* POST /consent from req.user.update to the response; an update with an   *)
(* absent value writes nothing and either succeeds or is refused by the    *)
(* datastore                                                               *)
ConsentUpdate(c) ==
    /\ c \in conInFlight
    /\ conInFlight' = conInFlight \ {c}
    /\ \/ /\ c.consentGiven.defined
          /\ users' = IF c.consentType = "marketing"
                      THEN UpdateUser(c.user,
                               [marketingConsent |-> c.consentGiven.value])
                      ELSE UpdateUser(c.user,
                               [dataRetentionConsent |-> c.consentGiven.value])
          /\ resp' = Response("consent", c.user, 200, "")
       \/ /\ ~c.consentGiven.defined
          /\ users' = users
          /\ \E status \in {200, 500} :
                resp' = Response("consent", c.user, status,
                                 IF status = 200 THEN ""
                                 ELSE "Failed to update consent")
    /\ calls' = {}
    /\ UNCHANGED <<analyses, consents, External, regInFlight, coInFlight,
                   delInFlight, anInFlight, hits, admitted, issued, now, nextId,
                   rmInFlight>>

(* GET /consents *)
GetConsents(t) ==
    IF authenticate(t) # "ok"
    THEN Reply("consents", 0, 401, authenticate(t))
    ELSE /\ \E list \in Ordered(RowsOf(consents, t.userId)) :
              resp' = [Response("consents", t.userId, 200, "")
                         EXCEPT !.data = list]
         /\ calls' = {}
         /\ UNCHANGED <<Tables, External, InFlight, hits, admitted, issued, now,
                        nextId>>

(* The account fields the export copies, as far as the model carries them *)
ExportedUserFields == {"email", "isPremium"}

(* A query without the where clause *)
ExportAllRows(table, u) ==
    {Project(r, DOMAIN r \ {"userId"}) : r \in table}

(* Model.findAll({ where: { userId }, attributes: { exclude: ['userId'] } }) *)
ExportRows(table, u) ==
    {Project(r, DOMAIN r \ {"userId"}) : r \in RowsOf(table, u)}

(* POST /export *)
Export(t) ==
    IF authenticate(t) # "ok"
    THEN Reply("export", 0, 401, authenticate(t))
    ELSE /\ resp' = [Response("export", t.userId, 200, "") EXCEPT !.data =
                  [ user |-> Project(users[t.userId], ExportedUserFields),
                    analyses |-> ExportRows(analyses, t.userId),
                    consents |-> ExportRows(consents, t.userId) ]]
         /\ calls' = {}
         /\ UNCHANGED <<Tables, External, InFlight, hits, admitted, issued, now,
                        nextId>>

(* A comparison that ignores case *)
ConfirmationMatchesAnyCase(confirmation) ==
    confirmation \in {ConfirmPhrase, "delete"}

(* confirmation !== 'DELETE' *)
ConfirmationMatches(confirmation) == confirmation = ConfirmPhrase

(* imageService.deleteUserImages: a failure is logged and swallowed *)
deleteUserImages(u, ok) ==
    IF ok THEN {b \in blobs : b.folder # u} ELSE blobs

(* POST /delete-account up to the await of Analysis.destroy *)
DeleteAccount(t, confirmation, cancelOk, imagesOk) ==
    IF authenticate(t) # "ok"
    THEN Reply("delete-account", 0, 401, authenticate(t))
    ELSE LET u == t.userId IN
      IF ~ConfirmationMatches(confirmation)
      THEN Reply("delete-account", u, 400,
                 "Please confirm deletion by sending DELETE")
      ELSE IF users[u].stripeSubscriptionId # NoRef /\ ~cancelOk
      THEN /\ resp' = Response("delete-account", u, 500,
                               "Failed to delete account")
           /\ calls' = {"stripe.subscriptions.cancel"}
           /\ UNCHANGED <<Tables, External, InFlight, hits, admitted, issued, now, nextId>>
      ELSE /\ \A d \in delInFlight : d.user # u
           /\ canceled' = IF users[u].stripeSubscriptionId # NoRef
                          THEN canceled \cup {users[u].stripeSubscriptionId}
                          ELSE canceled
           /\ blobs' = deleteUserImages(u, imagesOk)
           /\ delInFlight' = delInFlight \cup
                  {[user |-> u, pc |-> "Analysis.destroy"]}
           /\ resp' = Response("delete-account", u, 0, "")
           /\ calls' = {"cloudinary.delete_resources_by_prefix"} \cup
                  IF users[u].stripeSubscriptionId # NoRef
                  THEN {"stripe.subscriptions.cancel"} ELSE {}
           /\ UNCHANGED <<Tables, customers, regInFlight, coInFlight,
                          anInFlight, conInFlight, hits, admitted, issued, now, nextId,
                          rmInFlight>>

(* Foreign keys that leave the dependent rows in place *)
CascadeNothing(table, u) == table

(* The foreign keys of Analyses and Consents to Users are declared with    *)
(* onDelete: 'CASCADE'.                                                    *)
Cascade(table, u) == {r \in table : r.userId # u}

(* POST /delete-account: await Analysis.destroy({ where: { userId } }) *)
DestroyAnalyses(d) ==
    /\ d \in delInFlight /\ d.pc = "Analysis.destroy"
    /\ delInFlight' = (delInFlight \ {d}) \cup {[d EXCEPT !.pc = "Consent.destroy"]}
    /\ analyses' = {r \in analyses : r.userId # d.user}
    /\ resp' = Response("delete-account", d.user, 0, "")
    /\ calls' = {}
    /\ UNCHANGED <<users, consents, External, regInFlight, coInFlight,
                   anInFlight, conInFlight, hits, admitted, issued, now, nextId,
                   rmInFlight>>

(* POST /delete-account: await Consent.destroy({ where: { userId } }) *)
DestroyConsents(d) ==
    /\ d \in delInFlight /\ d.pc = "Consent.destroy"
    /\ delInFlight' = (delInFlight \ {d}) \cup {[d EXCEPT !.pc = "user.destroy"]}
    /\ consents' = {r \in consents : r.userId # d.user}
    /\ resp' = Response("delete-account", d.user, 0, "")
    /\ calls' = {}
    /\ UNCHANGED <<users, analyses, External, regInFlight, coInFlight,
                   anInFlight, conInFlight, hits, admitted, issued, now, nextId,
                   rmInFlight>>

(* POST /delete-account: await req.user.destroy(), then the response *)
DestroyUser(d) ==
    /\ d \in delInFlight /\ d.pc = "user.destroy"
    /\ delInFlight' = delInFlight \ {d}
    /\ users' = IF d.user \in Present THEN DropRow(users, d.user) ELSE users
    /\ analyses' = Cascade(analyses, d.user)
    /\ consents' = Cascade(consents, d.user)
    /\ resp' = Response("delete-account", d.user, 200, "")
    /\ calls' = {}
    /\ UNCHANGED <<External, regInFlight, coInFlight, anInFlight, conInFlight,
                   hits, admitted, issued, now, nextId,
                   rmInFlight>>

(* A handler that keeps a date that is already set *)
ScheduleDeletionOnce(t) ==
    IF authenticate(t) # "ok"
    THEN Reply("schedule-deletion", 0, 401, authenticate(t))
    ELSE LET u == t.userId
             deletionDate ==
                 IF users[u].accountDeletionScheduled # NoDate
                 THEN users[u].accountDeletionScheduled
                 ELSE now + GraceDays * DaySec
         IN
         /\ users' = UpdateUser(u, [accountDeletionScheduled |-> deletionDate])
         /\ resp' = [Response("schedule-deletion", u, 200, "")
                        EXCEPT !.data = deletionDate]
         /\ calls' = {}
         /\ UNCHANGED <<analyses, consents, External, InFlight, hits, admitted,
                        issued, now, nextId>>

(* POST /schedule-deletion; setDate(getDate() + 30) on a server clock      *)
(* without daylight-saving shifts                                          *)
ScheduleDeletion(t) ==
    IF authenticate(t) # "ok"
    THEN Reply("schedule-deletion", 0, 401, authenticate(t))
    ELSE LET u == t.userId
             deletionDate == now + GraceDays * DaySec
         IN
         /\ users' = UpdateUser(u, [accountDeletionScheduled |-> deletionDate])
         /\ resp' = [Response("schedule-deletion", u, 200, "")
                        EXCEPT !.data = deletionDate]
         /\ calls' = {}
         /\ UNCHANGED <<analyses, consents, External, InFlight, hits, admitted, issued,
                        now, nextId>>

(* A handler that refuses when nothing is scheduled *)
CancelDeletionIfScheduled(t) ==
    IF authenticate(t) # "ok"
    THEN Reply("cancel-deletion", 0, 401, authenticate(t))
    ELSE IF users[t.userId].accountDeletionScheduled = NoDate
    THEN Reply("cancel-deletion", t.userId, 400, "No deletion scheduled")
    ELSE /\ users' = UpdateUser(t.userId, [accountDeletionScheduled |-> NoDate])
         /\ resp' = Response("cancel-deletion", t.userId, 200, "")
         /\ calls' = {}
         /\ UNCHANGED <<analyses, consents, External, InFlight, hits, admitted,
                        issued, now, nextId>>

(* POST /cancel-deletion *)
CancelDeletion(t) ==
    IF authenticate(t) # "ok"
    THEN Reply("cancel-deletion", 0, 401, authenticate(t))
    ELSE /\ users' = UpdateUser(t.userId, [accountDeletionScheduled |-> NoDate])
         /\ resp' = Response("cancel-deletion", t.userId, 200, "")
         /\ calls' = {}
         /\ UNCHANGED <<analyses, consents, External, InFlight, hits, admitted, issued,
                        now, nextId>>

---------------------------------------------------------------------------
(* The clock *)

(* A clock step with a job that removes the accounts whose scheduled       *)
(* deletion is due                                                         *)
TickSweeping(d) ==
    /\ now + d <= MaxTicks * d
    /\ now' = now + d
    /\ users' = [u \in {x \in Present :
                           \/ users[x].accountDeletionScheduled = NoDate
                           \/ users[x].accountDeletionScheduled > now'} |->
                    users[u]]
    /\ admitted' = [k \in {x \in DOMAIN admitted : x[2] > now' - WindowSec} |->
                       admitted[k]]
    /\ resp' = NoResponse
    /\ calls' = {}
    /\ UNCHANGED <<analyses, consents, External, InFlight, hits, issued, nextId>>

Tick(d) ==
    /\ now + d <= MaxTicks * d
    /\ now' = now + d
    /\ admitted' = [k \in {x \in DOMAIN admitted : x[2] > now' - WindowSec} |->
                       admitted[k]]
    /\ resp' = NoResponse
    /\ calls' = {}
    /\ UNCHANGED <<Tables, External, InFlight, hits, issued, nextId>>

---------------------------------------------------------------------------
(* Inputs shared by the specifications *)

GoodFile == [type |-> "image", subtype |-> "jpeg", size |-> 1024]

AccessTokens == {t \in issued : t.key = "JWT_SECRET"}

(* The checkout requests that create a customer come one at a time, for   *)
(* MaxCustomers customers in all.                                          *)
SingleCheckout(t, customerOk) ==
    ( /\ customerOk /\ t.userId \in Present
      /\ users[t.userId].stripeCustomerId = NoRef )
    => /\ nextId.customer <= MaxCustomers
       /\ Cardinality(coInFlight) < MaxInFlight

(* No request other than account deletions is between two awaits. *)
Quiet ==
    /\ regInFlight = {} /\ coInFlight = {} /\ anInFlight = {}
    /\ conInFlight = {} /\ rmInFlight = {}

RegisterGood ==
    \/ \E raw \in {"test@example.com", "b@example.com"} :
           Quiet /\ Register(raw, "SecurePass123!", "true")
    \/ \E r \in regInFlight : RegisterCreate(r)

---------------------------------------------------------------------------
(* Billing: registration, checkout and the Stripe webhook *)

RegisterStep ==
    \/ \E raw \in RawEmails, pw \in Passwords, consent \in ConsentInputs :
           Register(raw, pw, consent)
    \/ \E r \in regInFlight : RegisterCreate(r)

NextBilling ==
    \/ RegisterStep
    \/ \E t \in Presentable, a \in BOOLEAN, b \in BOOLEAN :
           SingleCheckout(t, a) /\ CreateCheckout(t, a, b)
    \/ \E c \in coInFlight, b \in BOOLEAN : CheckoutUpdate(c, b)
    \/ \E e \in Events, ok \in BOOLEAN : Webhook(e, ok)
    \/ \E t \in Presentable, ok \in BOOLEAN : Cancel(t, ok)

SpecBilling == Init /\ [][NextBilling]_vars

\* C1: after any sequence of billing webhook events, an account is premium
\* exactly when its subscription status is 'active'.
C1_PremiumIffActive ==
    \A u \in Present :
        users[u].isPremium <=> (users[u].subscriptionStatus = "active")

Billing(u) ==
    [subscriptionStatus |-> users[u].subscriptionStatus,
     isPremium |-> users[u].isPremium,
     stripeSubscriptionId |-> users[u].stripeSubscriptionId]

\* C11: a webhook whose signature does not verify is answered 400, is
\* dispatched to no event handler and leaves the subscription status,
\* premium flag and subscription reference of every account unchanged.
C11_BadSignatureRejected ==
    [][(resp'.op = "webhook") =>
         \A e \in Events :
            Webhook(e, FALSE)
            => /\ resp'.status = 400
               /\ resp'.data = "none"
               /\ handleWebhook(e, FALSE).handler = "none"
               /\ \A u \in Present : Billing(u)' = Billing(u)
               /\ UNCHANGED <<Tables, External>>]_vars

C11_Witness ==
    /\ resp.op = "webhook" /\ resp.status = 400 /\ resp.data = "none"
    /\ \E u \in Present :
          /\ users[u].isPremium
          /\ users[u].stripeSubscriptionId # NoRef

\* C12: delivering a webhook event a second time right after the first
\* leaves every account as the first delivery left it, and is answered
\* the same way.
C12_DuplicateDeliveryIdempotent ==
    [][(resp'.op = "webhook") =>
         \A e \in Events, ok \in BOOLEAN :
            Webhook(e, ok)
            => /\ handleWebhook(e, ok)'.table = users'
               /\ handleWebhook(e, ok)'.threw = (resp'.status = 400)]_vars

C12_Witness ==
    /\ resp.op = "webhook" /\ resp.status = 200
    /\ resp.data = "handlePaymentFailed"
    /\ \E u \in Present :
          /\ users[u].subscriptionStatus = "past_due"
          /\ users[u].stripeSubscriptionId # NoRef

\* C24: an invoice.payment_failed event for the customer of an account sets
\* that account's subscriptionStatus to past_due and leaves its isPremium
\* and every other field as they were; every other account is unchanged.
C24_PaymentFailedOnlyPastDue ==
    [][(resp'.op = "webhook" /\ resp'.data = "handlePaymentFailed") =>
         \A e \in Events :
            (e.type = "invoice.payment_failed" /\ Webhook(e, TRUE))
            => /\ resp'.status = 200
               /\ DOMAIN users' = DOMAIN users
               /\ \A u \in Present :
                      users'[u] =
                        IF users[u].stripeCustomerId = e.customer
                        THEN [users[u] EXCEPT !.subscriptionStatus = "past_due"]
                        ELSE users[u]]_vars

C24_Witness ==
    /\ resp.op = "webhook" /\ resp.data = "handlePaymentFailed"
    /\ Cardinality(Present) = MaxUsers
    /\ \E u \in Present :
           /\ users[u].subscriptionStatus = "past_due"
           /\ users[u].isPremium
           /\ users[u].stripeSubscriptionId # NoRef

\* C28: once customer.subscription.deleted for subscription S was applied to
\* an account (status inactive, not premium, S still referenced), a created
\* or updated event for S with status active that is delivered afterwards
\* leaves the account not premium.
C28_LateActiveAfterDeleted ==
    [][(resp'.op = "webhook" /\ resp'.data = "updateSubscriptionStatus") =>
         \A e \in Events, u \in Present :
            ( /\ e.type \in {"customer.subscription.created",
                             "customer.subscription.updated"}
              /\ e.status = "active"
              /\ users[u].stripeSubscriptionId = e.id
              /\ users[u].subscriptionStatus = "inactive"
              /\ ~users[u].isPremium
              /\ Webhook(e, TRUE) )
            => /\ u \in DOMAIN users'
               /\ ~users'[u].isPremium]_vars

\* C20: cancel by an account without an active subscription, also one
\* whose subscription a subscription-deleted event has ended, is answered
\* 400 without a call to the billing provider; with an active subscription
\* it cancels the subscription at the provider and answers 200.
C20_CancelNeedsActive ==
    [][(resp'.op = "cancel") =>
         \A t \in AccessTokens, ok \in BOOLEAN :
            (authenticate(t) = "ok" /\ Cancel(t, ok))
            => IF users[t.userId].subscriptionStatus # "active"
               THEN resp'.status = 400 /\ calls' = {}
               ELSE ok => /\ resp'.status = 200
                          /\ users[t.userId].stripeSubscriptionId \in canceled'
      ]_vars

---------------------------------------------------------------------------
(* Consent gate: a database that already holds an account row whose       *)
(* gdprConsentDate column (allowNull: true) is null, next to accounts      *)
(* registered through the API                                              *)

StoredEmail == "b@example.com"

InitGate ==
    /\ users = AddRow(<< >>, 1, NewUser(StoredEmail, "SecurePass123!", NoDate))
    /\ analyses = {}
    /\ consents = {}
    /\ blobs = {}
    /\ customers = {}
    /\ canceled = {}
    /\ hits = << >>
    /\ admitted = << >>
    /\ issued = {}
    /\ now = 0
    /\ nextId = [user |-> 2, analysis |-> 1, consent |-> 1, customer |-> 1,
                 blob |-> 1]
    /\ regInFlight = {}
    /\ coInFlight = {}
    /\ delInFlight = {}
    /\ anInFlight = {}
    /\ conInFlight = {}
    /\ rmInFlight = {}
    /\ resp = NoResponse
    /\ calls = {}

GateFiles == {NoFile, GoodFile, [type |-> "application", subtype |-> "gif", size |-> 1024]}

NextGate ==
    \/ RegisterGood
    \/ \E raw \in {"test@example.com", StoredEmail} :
           Login(raw, "SecurePass123!")
    \/ \E t \in AccessTokens, f \in GateFiles, q \in BOOLEAN, up \in BOOLEAN :
           /\ Quiet /\ TotalHits(t.userId) <= MaxUploads
           /\ (f = GoodFile) => nextId.blob <= MaxUploads
           /\ CreateAnalysis(t, f, q, up)
    \/ \E a \in anInFlight, ok \in BOOLEAN : AnalyzeAndSave(a, ok)
    \/ Tick(AccessTtl)

SpecGate == InitGate /\ [][NextGate]_vars

\* C13: the consent gate passes exactly when the account's stored consent
\* timestamp is non-null; a request of an account without it is answered
\* 403 before the limiter and the pipeline, so no analysis, blob, analyzer
\* call or limiter hit ever exists for such an account.
C13_ConsentGateFirst ==
    [][/\ (resp'.op = "analysis") =>
            \A t \in AccessTokens, f \in GateFiles, q \in BOOLEAN, up \in BOOLEAN :
               (authenticate(t) = "ok" /\ CreateAnalysis(t, f, q, up))
               => /\ (resp'.status = 403)
                       <=> (users[t.userId].gdprConsentDate = NoDate)
                  /\ (resp'.status = 403)
                       => /\ calls' = {}
                          /\ UNCHANGED <<Tables, External, InFlight, hits,
                                         admitted>>
       /\ \A u \in DOMAIN users' :
             (users'[u].gdprConsentDate = NoDate)
             => /\ \A r \in analyses' : r.userId # u
                /\ \A b \in blobs' : b.folder # u
                /\ \A a \in anInFlight' : a.user # u
                /\ u \notin DOMAIN hits']_vars

C13_Witness ==
    /\ resp.op = "analysis" /\ resp.status = 403
    /\ users[resp.user].gdprConsentDate = NoDate
    /\ \E v \in Present : RowsOf(analyses, v) # {}

---------------------------------------------------------------------------
(* Erasure: two accounts, their analyses, consent changes, a subscription, *)
(* and POST /delete-account interleaved with the other handlers            *)

Subscribe ==
    \/ \E t \in AccessTokens :
           Quiet /\ SingleCheckout(t, TRUE) /\ CreateCheckout(t, TRUE, TRUE)
    \/ \E c \in coInFlight : CheckoutUpdate(c, TRUE)
    \/ \E e \in Events :
           /\ e.type = "customer.subscription.created" /\ e.status = "active"
           /\ Webhook(e, TRUE)

NextErasure ==
    \/ RegisterGood
    \/ Subscribe
    \/ \E t \in AccessTokens :
           /\ Quiet /\ TotalHits(t.userId) < MaxUploads
           /\ nextId.blob <= MaxUploads
           /\ CreateAnalysis(t, GoodFile, TRUE, TRUE)
    \/ \E a \in anInFlight : AnalyzeAndSave(a, TRUE)
    \/ \E t \in AccessTokens, c \in Phrases, a \in BOOLEAN, b \in BOOLEAN :
           DeleteAccount(t, c, a, b)
    \/ \E d \in delInFlight : DestroyAnalyses(d)
    \/ \E d \in delInFlight : DestroyConsents(d)
    \/ \E d \in delInFlight : DestroyUser(d)

SpecErasure == Init /\ [][NextErasure]_vars


\* C2: deleteNow with the correct phrase is best-effort on its external
\* calls: a delete-account step that called Stripe or Cloudinary never
\* aborts, it goes on to delete the account's rows.
C2_ExternalFailureDoesNotAbort ==
    (resp.op = "delete-account" /\ calls # {}) =>
        (resp.status = 0 /\ \E d \in delInFlight : d.user = resp.user)

\* C3: deleteNow with a phrase other than 'DELETE' answers 400, makes no
\* external call and leaves the tables and the external stores unchanged.
C3_MismatchLeavesAllIntact ==
    [][(resp'.op = "delete-account") =>
         \A t \in AccessTokens, c \in Phrases, a \in BOOLEAN, b \in BOOLEAN :
          (authenticate(t) = "ok" /\ c # "DELETE" /\ DeleteAccount(t, c, a, b))
          => /\ resp'.status = 400
             /\ calls' = {}
             /\ UNCHANGED <<Tables, External>>]_vars

C3_Witness ==
    /\ resp.op = "delete-account" /\ resp.status = 400
    /\ RowsOf(analyses, resp.user) # {}
    /\ RowsOf(consents, resp.user) # {}
    /\ users[resp.user].stripeSubscriptionId # NoRef
    /\ \E b \in blobs : b.folder = resp.user

ErasedNext(u) ==
    /\ u \notin DOMAIN users'
    /\ RowsOf(analyses', u) = {} /\ RowsOf(consents', u) = {}

OthersKept(u) ==
    /\ \A v \in Present \ {u} : v \in DOMAIN users' /\ users'[v] = users[v]
    /\ \A v \in UserIds \ {u} :
          /\ RowsOf(analyses', v) = RowsOf(analyses, v)
          /\ RowsOf(consents', v) = RowsOf(consents, v)

\* C4: once delete-account has answered 200 for an account, no account row,
\* analysis or consent record of that account is in the tables (then and
\* later), and no step of the deletion changes a row of another account.
C4_ErasesOwnRowsOnly ==
    [][/\ (resp'.op = "delete-account") => OthersKept(resp'.user)
       /\ (resp'.op = "delete-account" /\ resp'.status = 200) =>
              ErasedNext(resp'.user)
       /\ \A u \in UserIds :
              (u < nextId.user /\ u \notin Present) => ErasedNext(u)]_vars

C4_Witness ==
    /\ resp.op = "delete-account" /\ resp.status = 200
    /\ nextId.analysis > 1
    /\ \E v \in Present : RowsOf(consents, v) # {}

\* C14: every account with a non-null consent timestamp has a granted
\* consent record of the essential ('gdpr') category; registration writes
\* both.
C14_ConsentRecordExists ==
    \A u \in Present :
        (users[u].gdprConsentDate # NoDate)
        => \E c \in RowsOf(consents, u) :
               c.consentType = "gdpr" /\ c.consentGiven

---------------------------------------------------------------------------
(* Consent ledger: consent changes of registered accounts, with the clock  *)
(* advancing between them, and account deletion                            *)

ChangeableTypes == {"marketing", "data_retention", "cookies"}

NextLedger ==
    \/ RegisterGood
    \/ \E t \in AccessTokens, ty \in ConsentTypes, g \in BodyValues :
           Quiet /\ Consent(t, ty, g)
    \/ \E c \in conInFlight : ConsentUpdate(c)
    \/ \E t \in AccessTokens : GetConsents(t)
    \/ \E t \in AccessTokens : DeleteAccount(t, ConfirmPhrase, TRUE, TRUE)
    \/ \E d \in delInFlight :
           DestroyAnalyses(d) \/ DestroyConsents(d) \/ DestroyUser(d)
    \/ Tick(1)

SpecLedger == Init /\ [][NextLedger]_vars

\* C15: no step other than those of an account's erasure changes or
\* removes an existing consent record, and every accepted consent change
\* appends exactly one record, of the caller and of the category sent.
C15_LedgerAppendOnly ==
    [][/\ \A c \in consents :
             \/ c \in consents'
             \/ resp'.op = "delete-account" /\ c.userId = resp'.user
       /\ (resp'.op = "consent") =>
             \A t \in AccessTokens, ty \in ChangeableTypes, g \in BodyValues :
                (authenticate(t) = "ok" /\ Consent(t, ty, g))
                => \E c \in consents' \ consents :
                       /\ consents' = consents \cup {c}
                       /\ c.userId = t.userId
                       /\ c.consentType = ty]_vars

(* The first record of the category in a list of records *)
FirstOf(list, ty) ==
    list[CHOOSE i \in DOMAIN list :
            /\ list[i].consentType = ty
            /\ \A j \in DOMAIN list : list[j].consentType = ty => i <= j]

Listed(list) == {list[i] : i \in DOMAIN list}

\* C16 as stated: the consents endpoint returns, for each category, the
\* granted flag of the account's record with the highest timestamp, that
\* is one entry per category.
C16_OneLatestPerCategory ==
    (resp.op = "consents" /\ resp.status = 200)
    => /\ \A i, j \in DOMAIN resp.data :
             i # j => resp.data[i].consentType # resp.data[j].consentType
       /\ \A c \in RowsOf(consents, resp.user) :
             FirstOf(resp.data, c.consentType).createdAt >= c.createdAt

\* C16 amended: the consents endpoint returns every record of the caller
\* and no other, in descending timestamp order, so that for each category
\* the first record of that category in the response carries the highest
\* timestamp of the category, whatever the order of insertion.
C16_HistoryLatestFirst ==
    (resp.op = "consents" /\ resp.status = 200)
    => /\ Listed(resp.data) = RowsOf(consents, resp.user)
       /\ Len(resp.data) = Cardinality(RowsOf(consents, resp.user))
       /\ \A i, j \in DOMAIN resp.data :
             i < j => resp.data[i].createdAt >= resp.data[j].createdAt
       /\ \A c \in RowsOf(consents, resp.user) :
             FirstOf(resp.data, c.consentType).createdAt >= c.createdAt

C16_Witness ==
    /\ resp.op = "consents" /\ resp.status = 200
    /\ \E i, j \in DOMAIN resp.data :
          /\ i < j
          /\ resp.data[i].consentType = resp.data[j].consentType
          /\ resp.data[i].createdAt > resp.data[j].createdAt
          /\ resp.data[i].consentGiven # resp.data[j].consentGiven

---------------------------------------------------------------------------
(* Archive: two accounts, their uploads at different times, and the read   *)
(* and delete requests on single analyses                                  *)

NextArchive ==
    \/ RegisterGood
    \/ \E t \in AccessTokens : Quiet /\ CreateAnalysis(t, GoodFile, TRUE, TRUE)
    \/ \E a \in anInFlight : AnalyzeAndSave(a, TRUE)
    \/ \E t \in AccessTokens, id \in AnalysisIds : GetAnalysis(t, id)
    \/ \E t \in AccessTokens, id \in AnalysisIds, ok \in BOOLEAN :
           DeleteAnalysis(t, id, ok)
    \/ \E x \in rmInFlight : DestroyAnalysis(x)
    \/ Tick(1)

SpecArchive == Init /\ [][NextArchive]_vars

\* C17: a GET or DELETE of /analysis/:id by an account on an analysis of
\* another account is answered 404 without content and changes nothing;
\* an analysis is only ever returned to, and removed by, its owner.
C17_OwnerOnly ==
    [][/\ (resp'.op \in {"get-analysis", "delete-analysis"}) =>
             \A t \in AccessTokens, id \in AnalysisIds, ok \in BOOLEAN :
                ( /\ authenticate(t) = "ok"
                  /\ \E r \in analyses : r.id = id /\ r.userId # t.userId
                  /\ GetAnalysis(t, id) \/ DeleteAnalysis(t, id, ok) )
                => /\ resp'.status = 404
                   /\ resp'.data = 0
                   /\ calls' = {}
                   /\ UNCHANGED <<Tables, External, InFlight>>
       /\ (resp'.op = "get-analysis" /\ resp'.status = 200)
             => resp'.data.userId = resp'.user
       /\ \A r \in analyses \ analyses' :
             resp'.op = "delete-analysis" /\ resp'.user = r.userId
       /\ \A b \in blobs \ blobs' :
             resp'.op = "delete-analysis" /\ resp'.user = b.folder]_vars

C17_Witness ==
    /\ resp.op = "delete-analysis" /\ resp.status = 404
    /\ {r.id : r \in analyses} = AnalysisIds
    /\ \A r \in analyses : r.userId # resp.user
    /\ \A r \in analyses : \E b \in blobs : b.publicId = r.imagePublicId

---------------------------------------------------------------------------
(* Listing: two accounts, their uploads at different times, and the        *)
(* read-only list and export requests                                      *)

NextListing ==
    \/ RegisterGood
    \/ \E t \in AccessTokens : Quiet /\ CreateAnalysis(t, GoodFile, TRUE, TRUE)
    \/ \E a \in anInFlight : AnalyzeAndSave(a, TRUE)
    \/ \E t \in AccessTokens, p \in Pages, l \in Limits : ListAnalyses(t, p, l)
    \/ \E t \in AccessTokens : Export(t)
    \/ Tick(1)

SpecListing == Init /\ [][NextListing]_vars

Max(a, b) == IF a > b THEN a ELSE b

\* C18: the list endpoint called with page p >= 1 and limit l by an
\* account owning n analyses returns min(l, max(0, n - (p-1)*l)) items,
\* all of that account, in descending creation order, and total n.
C18_ListPage ==
    [][(resp'.op = "list") =>
         \A t \in AccessTokens, p \in Pages \ {0}, l \in Limits :
            (authenticate(t) = "ok" /\ ListAnalyses(t, p, l))
            => LET n == Cardinality(RowsOf(analyses, t.userId))
                   items == resp'.data.analyses
               IN  /\ resp'.status = 200
                   /\ Len(items) = Min(l, Max(0, n - (p - 1) * l))
                   /\ resp'.data.total = n
                   /\ \A i \in DOMAIN items :
                         \E r \in RowsOf(analyses, t.userId) :
                            r.id = items[i].id
                   /\ \A i, j \in DOMAIN items :
                         i < j => /\ items[i].createdAt >= items[j].createdAt
                                  /\ items[i].id # items[j].id
                   /\ UNCHANGED <<Tables, External, InFlight>>]_vars

C18_Witness ==
    /\ resp.op = "list" /\ resp.status = 200
    /\ resp.data.total = 2
    /\ Len(resp.data.analyses) = 1
    /\ resp.data.page = 2
    /\ \E r \in RowsOf(analyses, resp.user) :
          r.createdAt > resp.data.analyses[1].createdAt

\* C19: the export changes no account, analysis or consent record, and
\* its bundle holds exactly the caller's analyses and consent records,
\* without the password hash and without the owner reference of a row.
C19_ExportReadOnly ==
    [][(resp'.op = "export") =>
         \A t \in AccessTokens :
            (authenticate(t) = "ok" /\ Export(t))
            => /\ resp'.status = 200
               /\ UNCHANGED <<Tables, External, InFlight>>
               /\ {r.id : r \in resp'.data.analyses}
                     = {r.id : r \in RowsOf(analyses, t.userId)}
               /\ Cardinality(resp'.data.analyses)
                     = Cardinality(RowsOf(analyses, t.userId))
               /\ {r.id : r \in resp'.data.consents}
                     = {r.id : r \in RowsOf(consents, t.userId)}
               /\ Cardinality(resp'.data.consents)
                     = Cardinality(RowsOf(consents, t.userId))
               /\ "password" \notin DOMAIN resp'.data.user
               /\ \A r \in resp'.data.analyses \cup resp'.data.consents :
                     "userId" \notin DOMAIN r]_vars

C19_Witness ==
    /\ resp.op = "export" /\ resp.status = 200
    /\ resp.data.analyses # {} /\ resp.data.consents # {}
    /\ \E v \in Present \ {resp.user} :
          RowsOf(analyses, v) # {} /\ RowsOf(consents, v) # {}

---------------------------------------------------------------------------
(* Pipeline: uploads of every kind of file by a registered account, with   *)
(* the upload and the analysis succeeding or failing, and later deletion   *)

NextPipeline ==
    \/ Present = {} /\ RegisterGood
    \/ \E t \in AccessTokens, f \in Files, q \in BOOLEAN, up \in BOOLEAN :
           /\ Quiet /\ TotalHits(t.userId) <= MaxBlobs
           /\ CreateAnalysis(t, f, q, up)
    \/ \E a \in anInFlight, ok \in BOOLEAN : AnalyzeAndSave(a, ok)
    \/ \E t \in AccessTokens, id \in AnalysisIds : DeleteAnalysis(t, id, TRUE)
    \/ \E x \in rmInFlight : DestroyAnalysis(x)
    \/ Tick(1)

SpecPipeline == Init /\ [][NextPipeline]_vars

\* C21: a create-submission request that got past the consent gate and the
\* limiter with an image that is not JPEG or PNG, or larger than 10 MiB,
\* is answered 400 before a blob is stored, the analyzer is called or an
\* analysis is saved.
C21_BadImageIs400 ==
    [][(resp'.op = "analysis") =>
         \A t \in AccessTokens, f \in Files \ {NoFile}, q \in BOOLEAN,
            up \in BOOLEAN :
            ( /\ authenticate(t) = "ok" /\ ~validateImage(f)
              /\ CreateAnalysis(t, f, q, up)
              /\ resp'.status \notin {403, 429} )
            => /\ resp'.status = 400
               /\ calls' = {}
               /\ UNCHANGED <<Tables, External, InFlight>>]_vars

---------------------------------------------------------------------------
(* Advisory schedule: the clock passes the scheduled deletion date of an   *)
(* account that goes on logging in, uploading and, at will, deleting       *)
(* itself                                                                  *)

NextAdvisory ==
    \/ Present = {} /\ RegisterGood
    \/ \E raw \in {"test@example.com", "b@example.com"} :
           Login(raw, "SecurePass123!")
    \/ \E t \in AccessTokens : ScheduleDeletion(t)
    \/ \E t \in AccessTokens : CancelDeletion(t)
    \/ \E t \in AccessTokens :
           /\ Quiet /\ nextId.blob <= MaxUploads
           /\ CreateAnalysis(t, GoodFile, TRUE, TRUE)
    \/ \E a \in anInFlight : AnalyzeAndSave(a, TRUE)
    \/ \E t \in AccessTokens : DeleteAccount(t, ConfirmPhrase, TRUE, TRUE)
    \/ \E d \in delInFlight : DestroyAnalyses(d)
    \/ \E d \in delInFlight : DestroyConsents(d)
    \/ \E d \in delInFlight : DestroyUser(d)
    \/ Tick((GraceDays + 1) * DaySec)

SpecAdvisory == Init /\ [][NextAdvisory]_vars

(* The scheduled deletion date of account u has passed *)
Due(u) ==
    /\ users[u].accountDeletionScheduled # NoDate
    /\ users[u].accountDeletionScheduled < now

\* C26: the scheduled deletion date is advisory. Scheduling and cancelling
\* change no field but accountDeletionScheduled and delete no row; an
\* account whose date has passed still logs in, is authenticated by its
\* token and has its upload accepted; and an account row disappears only in
\* a delete-account step.
C26_ScheduleIsAdvisory ==
    [][/\ (resp'.op \in {"schedule-deletion", "cancel-deletion"}) =>
              /\ DOMAIN users' = DOMAIN users
              /\ \A u \in Present :
                     [users'[u] EXCEPT !.accountDeletionScheduled = NoDate] =
                     [users[u] EXCEPT !.accountDeletionScheduled = NoDate]
              /\ UNCHANGED <<analyses, consents, External>>
       /\ (resp'.op = "login") =>
              \A raw \in {"test@example.com", "b@example.com"} :
                 ( /\ EmailTaken(raw) /\ Due(UserByEmail(raw))
                   /\ Login(raw, "SecurePass123!") )
                 => resp'.status = 200
       /\ (resp'.op = "analysis") =>
              \A t \in AccessTokens :
                 ( /\ JwtVerify(t, "JWT_SECRET") = "ok"
                   /\ t.userId \in Present /\ Due(t.userId)
                   /\ CreateAnalysis(t, GoodFile, TRUE, TRUE) )
                 => /\ resp'.status \in {0, 429}
                    /\ resp'.status = 0 =>
                          \E a \in anInFlight' : a.user = t.userId
       /\ (\E u \in Present : u \notin DOMAIN users')
              => resp'.op = "delete-account"]_vars

C26_Witness ==
    /\ resp.op = "analysis" /\ resp.status = 201
    /\ users[resp.user].accountDeletionScheduled # NoDate
    /\ \E a \in analyses :
           /\ a.userId = resp.user
           /\ a.createdAt > users[resp.user].accountDeletionScheduled

---------------------------------------------------------------------------
(* Checkout: requests of one account to POST /create-checkout overlapping  *)
(* between stripe.customers.create and req.user.update                     *)

NextCheckout ==
    \/ RegisterGood
    \/ \E t \in AccessTokens, a \in BOOLEAN, b \in BOOLEAN :
           CreateCheckout(t, a, b)
    \/ \E c \in coInFlight, b \in BOOLEAN : CheckoutUpdate(c, b)

SpecCheckout == Init /\ [][NextCheckout]_vars

\* C27: however the checkout requests of an account follow or overlap one
\* another, Stripe holds at most one customer created for that account.
C27_OneCustomerPerAccount ==
    \A u \in UserIds : Cardinality({c \in customers : c.userId = u}) <= 1

---------------------------------------------------------------------------
(* Consent flags: requests of one account to POST /consent overlapping     *)
(* between logConsent and req.user.update                                  *)

NextFlags ==
    \/ Present = {} /\ RegisterGood
    \/ \E t \in AccessTokens, ty \in ConsentTypes, g \in BodyValues :
           Consent(t, ty, g)
    \/ \E c \in conInFlight : ConsentUpdate(c)
    \/ Tick(1)

SpecFlags == Init /\ [][NextFlags]_vars

(* The most recent consent record of account u in category ty *)
Latest(u, ty) ==
    CHOOSE c \in RowsOf(consents, u) :
        /\ c.consentType = ty
        /\ \A x \in RowsOf(consents, u) :
              x.consentType = ty =>
                 \/ x.createdAt < c.createdAt
                 \/ x.createdAt = c.createdAt /\ x.id <= c.id

\* C29: when no consent request of the account is under way, its
\* marketingConsent and dataRetentionConsent equal the value of its most
\* recent consent record of that category, if it has one; and a request
\* with a category other than marketing, data_retention and cookies is
\* answered 400 and changes neither the account nor the records.
C29_FlagsFollowLedger ==
    /\ \A u \in Present :
          (\A c \in conInFlight : c.user # u) =>
             /\ (\E c \in RowsOf(consents, u) : c.consentType = "marketing")
                   => users[u].marketingConsent =
                          Latest(u, "marketing").consentGiven
             /\ (\E c \in RowsOf(consents, u) : c.consentType = "data_retention")
                   => users[u].dataRetentionConsent =
                          Latest(u, "data_retention").consentGiven
    /\ (resp.op = "consent" /\ resp.error = "Invalid consent type")
          => resp.status = 400

---------------------------------------------------------------------------
(* Revoked tokens: an account uploads and deletes itself, and the access   *)
(* tokens issued to the accounts are presented to every endpoint behind    *)
(* authenticate                                                            *)

(* An unexpired, validly signed access token of an account whose row is    *)
(* gone                                                                    *)
Revoked(t) ==
    /\ t \in AccessTokens
    /\ JwtVerify(t, "JWT_SECRET") = "ok"
    /\ t.userId \notin Present

(* A request of one of the endpoints behind authenticate presenting t *)
BearerRequest(t) ==
    \/ Logout(t) \/ Me(t) \/ Status(t)
    \/ CreateAnalysis(t, GoodFile, TRUE, TRUE)
    \/ ListAnalyses(t, 1, 1) \/ GetAnalysis(t, 1) \/ DeleteAnalysis(t, 1, TRUE)
    \/ CreateCheckout(t, TRUE, TRUE) \/ Cancel(t, TRUE)
    \/ Consent(t, "marketing", JsonTrue) \/ GetConsents(t) \/ Export(t)
    \/ DeleteAccount(t, ConfirmPhrase, TRUE, TRUE)
    \/ ScheduleDeletion(t) \/ CancelDeletion(t)

NextRevoked ==
    \/ Present = {} /\ RegisterGood
    \/ \E t \in AccessTokens :
           /\ Quiet /\ authenticate(t) = "ok" /\ nextId.blob <= MaxUploads
           /\ CreateAnalysis(t, GoodFile, TRUE, TRUE)
    \/ \E a \in anInFlight : AnalyzeAndSave(a, TRUE)
    \/ \E t \in AccessTokens :
           authenticate(t) = "ok" /\ DeleteAccount(t, ConfirmPhrase, TRUE, TRUE)
    \/ \E d \in delInFlight : DestroyAnalyses(d)
    \/ \E d \in delInFlight : DestroyConsents(d)
    \/ \E d \in delInFlight : DestroyUser(d)
    \/ \E t \in AccessTokens : Revoked(t) /\ BearerRequest(t)

SpecRevoked == Init /\ [][NextRevoked]_vars

\* C30: a delete-account request that answers 200 leaves no row of the
\* account, and from then on every request to an endpoint behind
\* authenticate that presents an access token issued to that account, still
\* unexpired and validly signed, is answered 401 and changes nothing.
C30_TokenOfDeletedAccountRejected ==
    [][/\ (resp'.op = "delete-account" /\ resp'.status = 200)
              => resp'.user \notin DOMAIN users'
       /\ \A t \in AccessTokens :
             (Revoked(t) /\ BearerRequest(t))
             => /\ resp'.status = 401
                /\ resp'.error = "User not found"
                /\ calls' = {}
                /\ UNCHANGED <<Tables, External, InFlight, hits, admitted,
                               issued, nextId>>]_vars

C30_Witness ==
    /\ resp.status = 401 /\ resp.error = "User not found"
    /\ resp.op = "analysis"
    /\ \E t \in AccessTokens : Revoked(t)
    /\ Present # {}

---------------------------------------------------------------------------
(* Registration: requests racing on an email *)

NextRegister ==
    \/ RegisterStep
    \/ \E raw \in RawEmails, pw \in Passwords : Login(raw, pw)

SpecRegister == Init /\ [][NextRegister]_vars

\* C22: a register request refused for a password shorter than 8 characters
\* or for consent not given is answered 400; it issues no token and creates
\* no account and no consent record.
C22_WeakOrNoConsentRejected ==
    [][(resp'.op = "register") =>
         \A raw \in RawEmails, pw \in Passwords, consent \in ConsentInputs :
            ( /\ Len(pw) < MinPasswordLength \/ consent # "true"
              /\ Register(raw, pw, consent) )
            => /\ resp'.status = 400
               /\ UNCHANGED <<Tables, External, InFlight, issued, nextId>>]_vars

C22_Witness ==
    /\ resp.op = "register" /\ resp.status = 400
    /\ resp.data \in {{"password"}, {"gdprConsent"}}
    /\ Present # {}

(* Authentication: logins and token renewal, with the clock advancing by   *)
(* the lifetime of a token                                                 *)

NextAuth ==
    \/ RegisterGood
    \/ \E raw \in RawEmails, pw \in Passwords \cup {"", "wrongpassword"} :
           Login(raw, pw)
    \/ \E t \in Presentable \cup {NoToken} : Refresh(t)
    \/ \E d \in {AccessTtl, RefreshTtl} : Tick(d)

SpecAuth == Init /\ [][NextAuth]_vars

\* C5: a valid register request whose email an account already holds is
\* answered 400 'Email already registered' and creates nothing, and at no
\* time, however the requests interleave, do two accounts hold one email.
C5_DuplicateEmailRejected ==
    [][/\ (resp'.op = "register") =>
              \A raw \in RawEmails, pw \in Passwords, consent \in ConsentInputs :
                 ( /\ RegisterValid(raw, pw, consent)
                   /\ \E u \in Present : users[u].email = NormalizeEmail(raw)
                   /\ Register(raw, pw, consent) )
                 => /\ resp'.status = 400
                    /\ resp'.error = "Email already registered"
                    /\ UNCHANGED <<Tables, regInFlight, issued>>
       /\ \A u \in DOMAIN users', v \in DOMAIN users' :
              u # v => users'[u].email # users'[v].email]_vars

C5_Witness ==
    /\ resp.op = "register" /\ resp.status = 400
    /\ resp.error = "Email already registered"
    /\ Cardinality(Present) = MaxUsers

\* C10: POST /refresh with an unexpired renewal token signed by
\* generateTokens answers 200 and issues a new token pair for that account.
C10_ValidRenewalSucceeds ==
    [][(resp'.op = "refresh") =>
         \A t \in issued :
            (JwtVerify(t, "JWT_REFRESH_SECRET") = "ok" /\ Refresh(t))
            => /\ resp'.status = 200
               /\ resp'.user = t.userId
               /\ generateTokens(t.userId) \subseteq issued']_vars

---------------------------------------------------------------------------
(* Retention: scheduling and cancelling the deletion of an account over    *)
(* several days                                                            *)

NextRetention ==
    \/ RegisterGood
    \/ \E raw \in {"test@example.com", "b@example.com"} :
           Login(raw, "SecurePass123!")
    \/ \E t \in Presentable : ScheduleDeletion(t)
    \/ \E t \in Presentable : CancelDeletion(t)
    \/ Tick(DaySec)

SpecRetention == Init /\ [][NextRetention]_vars

\* C8: cancelScheduledDeletion by an authenticated account always answers
\* 200 and leaves scheduledDeletion null, whether or not a deletion was
\* scheduled, and changes nothing else.
C8_CancelClearsSchedule ==
    [][(resp'.op = "cancel-deletion") =>
         \A t \in Presentable :
            (authenticate(t) = "ok" /\ CancelDeletion(t))
            => /\ resp'.status = 200
               /\ users' = [users EXCEPT
                              ![t.userId].accountDeletionScheduled = NoDate]
               /\ users'[t.userId].accountDeletionScheduled = NoDate]_vars

C8_Witness ==
    /\ resp.op = "cancel-deletion" /\ resp.status = 200
    /\ users[resp.user].accountDeletionScheduled = NoDate
    /\ now > 0
    /\ \E v \in Present : users[v].accountDeletionScheduled # NoDate

\* C9: scheduleDeletion by an authenticated account sets scheduledDeletion
\* to the time of the call plus 30 days, whatever it was before, and
\* returns that timestamp.
C9_ScheduleIsNowPlus30Days ==
    [][(resp'.op = "schedule-deletion") =>
         \A t \in Presentable :
            (authenticate(t) = "ok" /\ ScheduleDeletion(t))
            => /\ resp'.status = 200
               /\ resp'.data = now + 30 * 24 * 60 * 60
               /\ users'[t.userId].accountDeletionScheduled = resp'.data]_vars

C9_Witness ==
    /\ resp.op = "schedule-deletion" /\ resp.status = 200
    /\ now > 0
    /\ users[resp.user].accountDeletionScheduled = now + 30 * 24 * 60 * 60
    /\ \E v \in Present \ {resp.user} :
          /\ users[v].accountDeletionScheduled # NoDate
          /\ users[v].accountDeletionScheduled < now + 30 * 24 * 60 * 60

---------------------------------------------------------------------------
(* Quota: the analysis limiter over two half-hours and more, for accounts  *)
(* of either tier                                                          *)

QuotaFiles ==
    { GoodFile, [type |-> "image", subtype |-> "gif", size |-> 1024] }

NextQuota ==
    \/ Present = {} /\ RegisterGood
    \/ /\ \A t \in AccessTokens : authenticate(t) # "ok"
       /\ Login("test@example.com", "SecurePass123!")
    \/ \E t \in AccessTokens :
           Quiet /\ SingleCheckout(t, TRUE) /\ CreateCheckout(t, TRUE, TRUE)
    \/ \E c \in coInFlight : CheckoutUpdate(c, TRUE)
    \/ \E e \in Events :
           /\ e.type = "customer.subscription.updated"
           /\ e.status \in {"active", "canceled"}
           /\ \A u \in Present : TotalHits(u) = 0
           /\ Webhook(e, TRUE)
    \/ \E t \in AccessTokens, f \in QuotaFiles :
           /\ Quiet /\ TotalHits(t.userId) <= max(t.userId)
           /\ (f = GoodFile) => nextId.blob <= MaxUploads
           /\ CreateAnalysis(t, f, TRUE, TRUE)
    \/ \E a \in anInFlight : AnalyzeAndSave(a, TRUE)
    \/ Tick(WindowSec \div 2)

SpecQuota == Init /\ [][NextQuota]_vars

TierQuota(u) == IF users[u].isPremium THEN 50 ELSE 5

\* C6: a create-analysis request of an account that has used up its tier's
\* quota in the current window is answered 429 before the pipeline: no
\* table, blob or external store changes and no external call is made.
C6_OverQuotaRejectedFirst ==
    [][(resp'.op = "analysis") =>
         \A t \in AccessTokens, f \in Files, q \in BOOLEAN, up \in BOOLEAN :
            ( /\ authenticate(t) = "ok"
              /\ users[t.userId].gdprConsentDate # NoDate
              /\ TotalHits(t.userId) >= TierQuota(t.userId)
              /\ CreateAnalysis(t, f, q, up) )
            => /\ resp'.status = 429
               /\ calls' = {}
               /\ UNCHANGED <<Tables, External, InFlight, admitted>>]_vars

C6_Witness ==
    /\ resp.op = "analysis" /\ resp.status = 429
    /\ users[resp.user].isPremium
    /\ TotalHits(resp.user) = PremiumMax + 1

RECURSIVE SumOver(_, _)
SumOver(f, keys) ==
    IF keys = {} THEN 0
    ELSE LET k == CHOOSE x \in keys : TRUE
         IN  f[k] + SumOver(f, keys \ {k})

(* Requests of account u, made at the given tier, that passed the limiter  *)
(* at an instant later than since                                          *)
AdmittedSince(u, premium, since) ==
    SumOver(admitted, {k \in DOMAIN admitted :
                          k[1] = u /\ k[3] = premium /\ k[2] > since})

WindowOpened(u) ==
    IF u \in DOMAIN hits /\ hits[u].resetTime > now
    THEN hits[u].resetTime - WindowSec
    ELSE now

============================================================================
